---- MODULE Spec2Model ----
(***************************************************************************)
(* Model of scripts/protein.py: the Protein residue lists and their move,  *)
(* the Slice (find_residues, compute_score, thicken, the comparisons) and  *)
(* the Sphere hemisphere sampler.                                          *)
(*                                                                         *)
(* Numbers.  Coordinates, centers, thicknesses and increments are          *)
(* integers.  An accessibility (asa) is an integer count of tenths.  A     *)
(* score is the exact quotient of two such numbers, kept as the reduced    *)
(* fraction <<numerator, denominator>>; the integer 0 that the code        *)
(* assigns is <<0, 1>>.                                                    *)
(***************************************************************************)
EXTENDS Integers, Sequences, FiniteSets, TLC

VARIABLES
    residues_exposed,   \* Protein.residues_exposed: sequence of Residue
    residues_burrowed,  \* Protein.residues_burrowed: sequence of Residue
    slices,             \* the Slice objects of the protein, by handle
    raised,             \* the exception the last call let escape
    warned,             \* the last call printed "Method must be 'ASA' or 'simple'"
    lastOp,             \* the name of the last call
    moves,              \* the number of Protein.move calls made
    cmp,                \* the results of the last comparisons of two Slices
    radius,             \* Sphere.radius
    surf_pts,           \* Sphere.surf_pts
    ret                 \* what the last sample_surface call returned

vars == <<residues_exposed, residues_burrowed, slices, raised, warned, lastOp,
          moves, cmp, radius, surf_pts, ret>>

proteinVars == <<residues_exposed, residues_burrowed, moves>>
sphereVars == <<radius, surf_pts, ret>>

----------------------------------------------------------------------------
(* Bounds of the model *)

\* residues of a protein (exposed and buried together)
MaxResidues == 2
\* largest total distance of the two thicknesses from their initial value
MaxDelta == 2
\* Protein.move calls
MaxMoves == 1
\* largest number of points asked of sample_surface
MaxNb == 4
\* largest length of Sphere.surf_pts
MaxPts == 6

----------------------------------------------------------------------------
(* Inputs *)

\* Slice.__init__: self.thickness = [7, 7]
DefaultThickness == 7

\* The residues a structure may hold: amino-acid code, position of the
\* alpha carbon, accessibility in tenths.  "UNK" is a code outside the 20.
ResiduePool ==
    {[aa |-> "GLY", coord |-> <<0, 0, 7>>, asa |-> 6],
     [aa |-> "UNK", coord |-> <<0, 0, 7>>, asa |-> 3],
     [aa |-> "ALA", coord |-> <<8, 2, -8>>, asa |-> 0],
     [aa |-> "ALA", coord |-> <<0, 0, -8>>, asa |-> 3]}
\* st.IS_EXPOSED_THRESHOLD, in tenths
Thresholds == {0, 3}
Centers == {0, 1}
Normals == {<<0, 0, 1>>, <<1, 0, 1>>}
Methods == {"ASA", "simple", "other"}
Increments == {-1, 1}
Shifts == {<<1, 2, -1>>}
Radii == {1, 2}
Counts == -1..MaxNb

----------------------------------------------------------------------------
(* Point *)

\* PointSub with the operation of __add__
PointAdd(p, q) == <<p[1] + q[1], p[2] + q[2], p[3] + q[3]>>

\* Point.__sub__
PointSub(p, q) == <<p[1] - q[1], p[2] - q[2], p[3] - q[3]>>

----------------------------------------------------------------------------
(* Residue *)

Residue(num, aa, p, asa) == [num |-> num, aa |-> aa, coord |-> p, asa |-> asa]

hydrophobic == {"PHE", "GLY", "ILE", "LEU", "MET", "VAL", "TRP", "TYR"}
hydrophilic == {"ALA", "CYS", "ASP", "GLU", "HIS", "LYS", "ASN", "PRO",
                "GLN", "ARG", "SER", "THR"}

\* Residue.is_hydrophobic: "ValueError" when the code is in neither table
is_hydrophobic(res) ==
    IF res.aa \notin hydrophobic /\ res.aa \notin hydrophilic
    THEN "ValueError"
    ELSE IF res.aa \in hydrophobic THEN "True" ELSE "False"

\* Residue.is_exposed
is_exposed(res, threshold) == res.asa >= threshold

----------------------------------------------------------------------------
(* Arithmetic of scores *)

RECURSIVE Gcd(_, _)
Gcd(a, b) == IF b = 0 THEN a ELSE Gcd(b, a % b)

\* the quotient n / d of two non-negative numbers, d > 0
Quotient(n, d) == LET g == Gcd(n, d) IN <<n \div g, d \div g>>

Zero == <<0, 1>>

\* p < q, p <= q for quotients
QLess(p, q) == p[1] * q[2] < q[1] * p[2]
QLeq(p, q) == p[1] * q[2] <= q[1] * p[2]

----------------------------------------------------------------------------
(* Slice *)

SliceIds == {1, 2}

\* The fields of a Slice.  residues holds references to the protein's
\* Residue objects: each is the position of the residue in residues_exposed.
\* thickness is <<thickness[0], thickness[1]>>: back, front.
NoSlice ==
    [alive |-> FALSE, center |-> 0, normal |-> <<0, 0, 0>>,
     score_method |-> "", thickness |-> <<0, 0>>, residues |-> <<>>,
     score |-> Zero]

\* BetweenPlanes with the front plane left out
BetweenPlanes_open(res, center, normal, thickness) ==
    LET p == normal[1] * res.coord[1] + normal[2] * res.coord[2]
                + normal[3] * res.coord[3]
    IN  p >= center - thickness[1] /\ p < center + thickness[2]

\* the test of find_residues on one residue
BetweenPlanes(res, center, normal, thickness) ==
    LET a == normal[1]
        b == normal[2]
        c == normal[3]
        x == res.coord[1]
        y == res.coord[2]
        z == res.coord[3]
        d1 == center - thickness[1]
        d2 == center + thickness[2]
    IN  a * x + b * y + c * z >= d1 /\ a * x + b * y + c * z <= d2

RECURSIVE find_loop(_, _, _)
find_loop(sl, i, found) ==
    IF i > Len(residues_exposed) THEN found
    ELSE find_loop(sl, i + 1,
            IF BetweenPlanes(residues_exposed[i], sl.center, sl.normal,
                             sl.thickness)
            THEN Append(found, i) ELSE found)

\* Slice.find_residues: the new value of self.residues
find_residues(sl) == find_loop(sl, 1, <<>>)

\* compute_score, method 'ASA': the loop over self.residues, giving
\* <<hydrophobic_asa, total_asa_slice>> (total_asa_prot is never read).  A residue whose is_hydrophobic
\* raises leaves the try block before total_asa_slice is updated.
RECURSIVE asa_loop(_, _, _, _)
asa_loop(refs, i, hydrophobic_asa, total_asa_slice) ==
    IF i > Len(refs) THEN <<hydrophobic_asa, total_asa_slice>>
    ELSE LET res == residues_exposed[refs[i]]
             h == is_hydrophobic(res)
         IN  IF h = "ValueError"
             THEN asa_loop(refs, i + 1, hydrophobic_asa, total_asa_slice)
             ELSE asa_loop(refs, i + 1,
                     IF h = "True" THEN hydrophobic_asa + res.asa
                                   ELSE hydrophobic_asa,
                     total_asa_slice + res.asa)

\* compute_score, method 'simple': the loop over self.residues, giving cpt
RECURSIVE simple_loop(_, _, _)
simple_loop(refs, i, cpt) ==
    IF i > Len(refs) THEN cpt
    ELSE simple_loop(refs, i + 1,
            IF is_hydrophobic(residues_exposed[refs[i]]) = "True"
            THEN cpt + 1 ELSE cpt)

\* compute_score with a guard that scores a zero total as 0
compute_score_guarded(sl, method) ==
    IF method # "ASA" /\ method # "simple"
    THEN [raised |-> "ValueError", score |-> sl.score]
    ELSE IF method = "ASA"
    THEN LET sums == asa_loop(sl.residues, 1, 0, 0)
         IN  IF sums[2] = 0 THEN [raised |-> "", score |-> Zero]
             ELSE [raised |-> "", score |-> Quotient(sums[1], sums[2])]
    ELSE IF Len(sl.residues) = 0
         THEN [raised |-> "ZeroDivisionError", score |-> sl.score]
         ELSE [raised |-> "",
               score |-> Quotient(simple_loop(sl.residues, 1, 0),
                                  Len(sl.residues))]

\* Slice.compute_score(method): the exception it raises ("" for none) and
\* the value of self.score when it ends
compute_score(sl, method) ==
    IF method # "ASA" /\ method # "simple"
    THEN [raised |-> "ValueError", score |-> sl.score]
    ELSE IF method = "ASA"
    THEN LET sums == asa_loop(sl.residues, 1, 0, 0)
         IN  IF sums[2] = 0
             THEN [raised |-> "ZeroDivisionError", score |-> sl.score]
             ELSE [raised |-> "", score |-> Quotient(sums[1], sums[2])]
    ELSE LET cpt == simple_loop(sl.residues, 1, 0)
         IN  IF Len(sl.residues) = 0
             THEN [raised |-> "ZeroDivisionError", score |-> sl.score]
             ELSE [raised |-> "", score |-> Quotient(cpt, Len(sl.residues))]

\* Rescore that leaves the score of an emptied slice as it was
Rescore_stale(sl0, reset_when_empty) ==
    LET sl == [sl0 EXCEPT !.residues = find_residues(sl0)]
        r == compute_score(sl, sl.score_method)
    IN  IF Len(sl.residues) # 0
        THEN IF r.raised = "ValueError"
             THEN [raised |-> "", warned |-> TRUE, slice |-> sl]
             ELSE [raised |-> r.raised, warned |-> FALSE,
                   slice |-> [sl EXCEPT !.score = r.score]]
        ELSE [raised |-> "", warned |-> FALSE, slice |-> sl]

\* The part of __init__ and of thicken that follows the change of the
\* fields: find_residues, then compute_score under try/except ValueError,
\* or (in thicken only) self.score = 0 for an empty slice.
Rescore(sl0, reset_when_empty) ==
    LET sl == [sl0 EXCEPT !.residues = find_residues(sl0)]
        n_res == Len(sl.residues)
        r == compute_score(sl, sl.score_method)
    IN  IF n_res # 0
        THEN IF r.raised = "ValueError"
             THEN [raised |-> "", warned |-> TRUE, slice |-> sl]
             ELSE [raised |-> r.raised, warned |-> FALSE,
                   slice |-> [sl EXCEPT !.score = r.score]]
        ELSE [raised |-> "", warned |-> FALSE,
              slice |-> IF reset_when_empty THEN [sl EXCEPT !.score = Zero]
                        ELSE sl]

\* Slice.__init__
slice_init(center, normal, method) ==
    Rescore([alive |-> TRUE, center |-> center, normal |-> normal,
             score_method |-> method,
             thickness |-> <<DefaultThickness, DefaultThickness>>,
             residues |-> <<>>, score |-> Zero], FALSE)

\* thickened with the two directions exchanged
thickened_swapped(thickness, increment, normal_direction) ==
    IF normal_direction
    THEN <<thickness[1] + increment, thickness[2]>>
    ELSE <<thickness[1], thickness[2] + increment>>

\* Slice.thicken: the new thickness
thickened(thickness, increment, normal_direction) ==
    IF normal_direction
    THEN <<thickness[1], thickness[2] + increment>>
    ELSE <<thickness[1] + increment, thickness[2]>>

\* thicken without the reset of the score of an empty slice
thicken_no_reset(sl, increment, normal_direction) ==
    Rescore([sl EXCEPT !.thickness =
                thickened(sl.thickness, increment, normal_direction)], FALSE)

\* Slice.thicken
thicken(sl, increment, normal_direction) ==
    Rescore([sl EXCEPT !.thickness =
                thickened(sl.thickness, increment, normal_direction)], TRUE)

\* Slice.__lt__
slice_lt(self, other) == IF QLess(self.score, other.score) THEN TRUE ELSE FALSE
\* Slice.__gt__
slice_gt(self, other) == IF QLess(other.score, self.score) THEN TRUE ELSE FALSE
\* __le__ with the test of __lt__
slice_le_strict(self, other) ==
    IF QLess(self.score, other.score) THEN TRUE ELSE FALSE
\* Slice.__le__
slice_le(self, other) == IF QLeq(self.score, other.score) THEN TRUE ELSE FALSE
\* Slice.__ge__
slice_ge(self, other) == IF QLeq(other.score, self.score) THEN TRUE ELSE FALSE

----------------------------------------------------------------------------
(* Floating point, as fixed point: a real x is the integer x * Scale, cut. *)
(* For every radius of Radii and every count up to 17 the sampler below    *)
(* yields the band counts m_theta, m_phi and the kept points of the        *)
(* floating-point code.                                                    *)

Scale == 1000
\* math.pi
Pi == 3142

RECURSIVE SqrtBetween(_, _, _)
SqrtBetween(n, lo, hi) ==
    IF lo >= hi THEN lo
    ELSE LET mid == (lo + hi + 1) \div 2
         IN  IF mid * mid <= n THEN SqrtBetween(n, mid, hi)
             ELSE SqrtBetween(n, lo, mid - 1)

\* math.sqrt
Sqrt(x) == SqrtBetween(x * Scale, 0, 46340)

\* round, to the nearest integer and to the even one of two nearest
Round(x) ==
    LET q == x \div Scale
        r == x % Scale
    IN  IF 2 * r > Scale THEN q + 1
        ELSE IF 2 * r < Scale THEN q
        ELSE IF q % 2 = 0 THEN q ELSE q + 1

\* the product of two reals
Times(x, y) ==
    LET p == x * y IN IF p >= 0 THEN p \div Scale ELSE -((-p) \div Scale)

\* math.sin on [0, pi/2]: the series to the ninth power
SinSeries(x) ==
    LET y == (x * x) \div Scale
        t4 == Scale - y \div 72
        t3 == Scale - ((y * t4) \div Scale) \div 42
        t2 == Scale - ((y * t3) \div Scale) \div 20
        t1 == Scale - ((y * t2) \div Scale) \div 6
    IN  (x * t1) \div Scale

\* math.sin
Sin(x0) ==
    LET x == x0 % (2 * Pi)
    IN  IF x <= Pi \div 2 THEN SinSeries(x)
        ELSE IF x <= Pi THEN SinSeries(Pi - x)
        ELSE IF x <= Pi + Pi \div 2 THEN -SinSeries(x - Pi)
        ELSE -SinSeries(2 * Pi - x)

\* math.cos
Cos(x) == Sin(x + Pi \div 2)

----------------------------------------------------------------------------
(* Sphere *)

\* sample_surface: the loop over n, for n from `n` on
RECURSIVE point_loop(_, _, _, _, _)
point_loop(pts, r, theta, m_phi, n) ==
    IF n >= m_phi THEN pts
    ELSE LET phi == (2 * Pi * n) \div m_phi
             x == Times(r * Sin(theta), Cos(phi))
             y == Times(r * Sin(theta), Sin(phi))
             z == r * Cos(theta)
         IN  point_loop(IF z >= 0 THEN Append(pts, <<x, y, z>>) ELSE pts,
                        r, theta, m_phi, n + 1)

\* sample_surface: the loop over m, for m from `m` on
RECURSIVE band_loop(_, _, _, _, _)
band_loop(pts, r, m_theta, d_phi, m) ==
    IF m >= m_theta THEN pts
    ELSE LET theta == ((Pi * (m * Scale + Scale \div 2)) \div Scale) \div m_theta
             m_phi == Round((((2 * Pi * Sin(theta)) \div Scale) * Scale) \div d_phi)
         IN  band_loop(point_loop(pts, r, theta, m_phi, 0),
                       r, m_theta, d_phi, m + 1)

\* the value sample_surface returns
returned(pts) == Len(pts)

\* sample_surface from the computation of a on, for nb > 0: the exception
\* raised, surf_pts when the call ends, the value returned
sample_points(pts, r, nb) ==
    LET a == (4 * Pi * ((r * r * Scale) \div nb)) \div Scale
        d == Sqrt(a)
        m_theta == Round((Pi * Scale) \div d)
    IN  IF m_theta = 0
        THEN [raised |-> "ZeroDivisionError", surf_pts |-> pts, ret |-> 0]
        ELSE LET d_theta == Pi \div m_theta
                 d_phi == (a * Scale) \div d_theta
                 new == band_loop(pts, r, m_theta, d_phi, 0)
             IN  [raised |-> "", surf_pts |-> new, ret |-> returned(new)]

\* sample_surface that lets a count of 0 through: r**2.0 / nb divides by 0
sample_surface_zero(pts, r, nb) ==
    IF nb < 0 THEN [raised |-> "ValueError", surf_pts |-> pts, ret |-> 0]
    ELSE IF nb = 0
    THEN [raised |-> "ZeroDivisionError", surf_pts |-> pts, ret |-> 0]
    ELSE sample_points(pts, r, nb)

\* Sphere.sample_surface(nb) on a Sphere of radius r whose surf_pts is pts
sample_surface(pts, r, nb) ==
    IF nb <= 0 THEN [raised |-> "ValueError", surf_pts |-> pts, ret |-> 0]
    ELSE sample_points(pts, r, nb)

----------------------------------------------------------------------------
(* Protein *)

\* Protein.move: one of the two loops
RECURSIVE move_loop(_, _, _)
move_loop(residues, i, shift) ==
    IF i > Len(residues) THEN residues
    ELSE move_loop([residues EXCEPT ![i].coord = PointSub(@, shift)],
                   i + 1, shift)

\* Protein.find_exposed_residues: the residues of `all` that go to
\* residues_exposed (exposed = TRUE) or to residues_burrowed
RECURSIVE partition_loop(_, _, _, _, _)
partition_loop(all, i, threshold, exposed, kept) ==
    IF i > Len(all) THEN kept
    ELSE partition_loop(all, i + 1, threshold, exposed,
            IF is_exposed(all[i], threshold) = exposed
            THEN Append(kept, all[i]) ELSE kept)

----------------------------------------------------------------------------
(* The state after the Protein is built *)

Proteins == UNION {[1..n -> ResiduePool] : n \in 1..MaxResidues}

NoCmp == [a |-> 0, b |-> 0,
          lt |-> FALSE, gt |-> FALSE, le |-> FALSE, ge |-> FALSE]

\* no Slice, one Sphere of the default radius
Fresh ==
    /\ slices = [s \in SliceIds |-> NoSlice]
    /\ raised = ""
    /\ warned = FALSE
    /\ lastOp = "Protein"
    /\ moves = 0
    /\ cmp = NoCmp
    /\ radius = 1
    /\ surf_pts = <<>>
    /\ ret = 0

Init ==
    /\ \E p \in Proteins, threshold \in Thresholds :
          LET all == [i \in DOMAIN p |->
                        Residue(i, p[i].aa, p[i].coord, p[i].asa)]
          IN  /\ residues_exposed = partition_loop(all, 1, threshold, TRUE, <<>>)
              /\ residues_burrowed = partition_loop(all, 1, threshold, FALSE, <<>>)
    /\ Fresh

\* the state of a program that builds a Sphere and no Protein
SphereInit ==
    /\ residues_exposed = <<>>
    /\ residues_burrowed = <<>>
    /\ Fresh

----------------------------------------------------------------------------
(* Calls *)

\* s = Slice(protein, center, normal, method).  An exception that escapes
\* __init__ leaves no object behind.
Construct(s, center, normal, method) ==
    /\ ~slices[s].alive
    /\ LET r == slice_init(center, normal, method)
       IN  /\ slices' = IF r.raised = "" THEN [slices EXCEPT ![s] = r.slice]
                        ELSE slices
           /\ raised' = r.raised
           /\ warned' = r.warned
    /\ lastOp' = "Slice"
    /\ UNCHANGED <<proteinVars, cmp, sphereVars>>

\* s.compute_score(method)
ComputeScore(s, method) ==
    /\ slices[s].alive
    /\ LET r == compute_score(slices[s], method)
       IN  /\ slices' = [slices EXCEPT ![s].score = r.score]
           /\ raised' = r.raised
    /\ warned' = FALSE
    /\ lastOp' = "compute_score"
    /\ UNCHANGED <<proteinVars, cmp, sphereVars>>

Abs(n) == IF n < 0 THEN -n ELSE n

InThicknessBound(t) ==
    Abs(t[1] - DefaultThickness) + Abs(t[2] - DefaultThickness) <= MaxDelta

\* s.thicken(increment, normal_direction)
Thicken(s, increment, normal_direction) ==
    /\ slices[s].alive
    /\ InThicknessBound(thickened(slices[s].thickness, increment,
                                  normal_direction))
    /\ LET r == thicken(slices[s], increment, normal_direction)
       IN  /\ slices' = [slices EXCEPT ![s] = r.slice]
           /\ raised' = r.raised
           /\ warned' = r.warned
    /\ lastOp' = "thicken"
    /\ UNCHANGED <<proteinVars, cmp, sphereVars>>

\* protein.move(shift)
Move(shift) ==
    /\ moves < MaxMoves
    /\ residues_exposed' = move_loop(residues_exposed, 1, shift)
    /\ residues_burrowed' = move_loop(residues_burrowed, 1, shift)
    /\ moves' = moves + 1
    /\ raised' = ""
    /\ warned' = FALSE
    /\ lastOp' = "move"
    /\ UNCHANGED <<slices, cmp, sphereVars>>

\* a < b, a > b, a <= b, a >= b
Compare(a, b) ==
    /\ slices[a].alive /\ slices[b].alive
    /\ cmp' = [a |-> a, b |-> b,
               lt |-> slice_lt(slices[a], slices[b]),
               gt |-> slice_gt(slices[a], slices[b]),
               le |-> slice_le(slices[a], slices[b]),
               ge |-> slice_ge(slices[a], slices[b])]
    /\ raised' = ""
    /\ warned' = FALSE
    /\ lastOp' = "compare"
    /\ UNCHANGED <<proteinVars, slices, sphereVars>>

\* Sphere(r)
NewSphere(r) ==
    /\ radius' = r
    /\ surf_pts' = <<>>
    /\ raised' = ""
    /\ warned' = FALSE
    /\ lastOp' = "Sphere"
    /\ UNCHANGED <<proteinVars, slices, cmp, ret>>

\* sphere.sample_surface(nb).  ret keeps the value of the last call that
\* returned.
SampleSurface(nb) ==
    /\ LET r == sample_surface(surf_pts, radius, nb)
       IN  /\ Len(r.surf_pts) <= MaxPts
           /\ surf_pts' = r.surf_pts
           /\ raised' = r.raised
           /\ ret' = IF r.raised = "" THEN r.ret ELSE ret
    /\ warned' = FALSE
    /\ lastOp' = "sample_surface"
    /\ UNCHANGED <<proteinVars, slices, cmp, radius>>

Next ==
    \/ \E center \in Centers, normal \in Normals, method \in Methods :
          Construct(1, center, normal, method)
    \/ \E method \in Methods : ComputeScore(1, method)
    \/ \E increment \in Increments, normal_direction \in BOOLEAN :
          Thicken(1, increment, normal_direction)
    \/ \E shift \in Shifts : Move(shift)

Spec == Init /\ [][Next]_vars

\* two Slices of one protein, built, thickened and compared
OrderNext ==
    \/ \E s \in SliceIds, normal \in Normals, method \in {"ASA", "simple"} :
          Construct(s, 0, normal, method)
    \/ \E s \in SliceIds, increment \in Increments :
          Thicken(s, increment, FALSE)
    \/ \E a \in SliceIds, b \in SliceIds : Compare(a, b)

OrderSpec == Init /\ [][OrderNext]_vars

\* two Slices of one protein built with the same arguments, each thickened
\* by its own sequence of calls; the protein is not moved
PathNext ==
    \/ \E center \in Centers, normal \in Normals, method \in Methods :
          Construct(1, center, normal, method)
    \/ /\ slices[1].alive
       /\ Construct(2, slices[1].center, slices[1].normal,
                    slices[1].score_method)
    \/ \E s \in SliceIds, increment \in Increments,
          normal_direction \in BOOLEAN :
          Thicken(s, increment, normal_direction)

PathSpec == Init /\ [][PathNext]_vars

\* one Sphere, sampled any number of times
SphereNext ==
    \/ \E r \in Radii : NewSphere(r)
    \/ \E nb \in Counts : SampleSurface(nb)

SphereSpec == SphereInit /\ [][SphereNext]_vars

----------------------------------------------------------------------------
(* Properties *)

Range(f) == {f[i] : i \in DOMAIN f}

\* the steps that are a construction or a thicken of Slice s, a move
Rebuilt(s) ==
    \/ /\ lastOp' = "Slice"
       /\ \E center \in Centers, normal \in Normals, method \in Methods :
             Construct(s, center, normal, method)
    \/ /\ lastOp' = "thicken"
       /\ \E increment \in Increments, normal_direction \in BOOLEAN :
             Thicken(s, increment, normal_direction)
Moved == lastOp' = "move" /\ \E shift \in Shifts : Move(shift)

\* p = a*x + b*y + c*z
Projection(normal, coord) ==
    normal[1] * coord[1] + normal[2] * coord[2] + normal[3] * coord[3]

\* the exposed residues between the two planes of a Slice, both inclusive
Inside(sl) ==
    {i \in DOMAIN residues_exposed :
        LET p == Projection(sl.normal, residues_exposed[i].coord)
        IN  sl.center - sl.thickness[1] <= p /\ p <= sl.center + sl.thickness[2]}

\* residues holds exactly those residues, each once
Exact(sl) ==
    /\ Range(sl.residues) = Inside(sl)
    /\ Len(sl.residues) = Cardinality(Inside(sl))

\* C1, as stated: in every state reached by constructions, thicken calls
\* and moves, the residues of a Slice are exactly the exposed residues
\* between its planes.
C1_ExactAlways == \A s \in SliceIds : slices[s].alive => Exact(slices[s])

\* C1, amended: the residues of a Slice are exactly the exposed residues
\* between its planes after its construction and after each of its thicken
\* calls, and stay so over every call that is not a move.
C1_ExactUntilMove ==
    [][\A s \in SliceIds :
          (/\ slices'[s].alive
           /\ \/ Rebuilt(s)
              \/ ~Moved /\ slices[s].alive /\ Exact(slices[s]))
          => Exact(slices[s])']_vars

\* after a move, a thicken has left a residue on the front plane in the
\* slice and another residue out of it
C1_Witness ==
    /\ slices[1].alive /\ lastOp = "thicken" /\ moves > 0
    /\ Exact(slices[1])
    /\ Len(slices[1].residues) < Len(residues_exposed)
    /\ \E i \in Range(slices[1].residues) :
          Projection(slices[1].normal, residues_exposed[i].coord)
            = slices[1].center + slices[1].thickness[2]

\* the sum of the accessibilities of the residues of refs with a code of S
RECURSIVE SumAsa(_, _)
SumAsa(refs, S) ==
    IF refs = <<>> THEN 0
    ELSE (IF residues_exposed[Head(refs)].aa \in S
          THEN residues_exposed[Head(refs)].asa ELSE 0) + SumAsa(Tail(refs), S)

\* the number of residues of refs with a code of S
Count(refs, S) ==
    Cardinality({i \in DOMAIN refs : residues_exposed[refs[i]].aa \in S})

Canonical == hydrophobic \cup hydrophilic
Codes(refs) == {residues_exposed[refs[i]].aa : i \in DOMAIN refs}

InUnit(q) == 0 <= q[1] /\ q[1] <= q[2] /\ q[2] > 0

\* the scoring method of a Slice has a value on its residues, and the value
HasValue(sl) ==
    /\ sl.residues # <<>>
    /\ sl.score_method = "ASA" => SumAsa(sl.residues, Canonical) # 0
Value(sl) ==
    IF sl.score_method = "ASA"
    THEN Quotient(SumAsa(sl.residues, hydrophobic),
                  SumAsa(sl.residues, Canonical))
    ELSE Quotient(Count(sl.residues, hydrophobic), Len(sl.residues))

\* the Slices whose score the last call (a construction or a thicken) set
Scored ==
    {s \in SliceIds : /\ slices[s].alive
                      /\ slices[s].score_method \in {"ASA", "simple"}
                      /\ lastOp \in {"Slice", "thicken"}}

\* C2, as stated: after a construction and any thicken calls, with method
\* 'ASA' or 'simple', the score is 0 when the slice is empty and otherwise
\* is the value of the scoring method on the residues, within [0, 1].
C2_ScoreIsValue ==
    \A s \in Scored :
        IF slices[s].residues = <<>> THEN slices[s].score = Zero
        ELSE /\ HasValue(slices[s])
             /\ slices[s].score = Value(slices[s])
             /\ InUnit(slices[s].score)

\* C2, amended: the score is 0 when the slice is empty; it is the value of
\* the scoring method on the residues when the method has one (when 'ASA'
\* does not divide by zero); it lies within [0, 1] in every case.
C2_ScoreIsValueIfAny ==
    \A s \in Scored :
        /\ slices[s].residues = <<>> => slices[s].score = Zero
        /\ HasValue(slices[s]) => slices[s].score = Value(slices[s])
        /\ InUnit(slices[s].score)

\* a thicken under 'ASA' has given a score strictly between 0 and 1
C2_Witness ==
    /\ lastOp = "thicken" /\ 1 \in Scored
    /\ slices[1].score_method = "ASA"
    /\ HasValue(slices[1])
    /\ 0 < slices[1].score[1] /\ slices[1].score[1] < slices[1].score[2]

\* C3: under both methods a residue of the slice with a code outside the 20
\* adds nothing to the numerator and is counted in the denominator: the
\* score is the hydrophobic count over the number of residues ('simple'),
\* the hydrophobic accessibility over the accessibility of all the
\* residues of the slice ('ASA').
C3_UnknownInDenominator ==
    \A s \in Scored :
        (raised = "" /\ slices[s].residues # <<>>) =>
            IF slices[s].score_method = "simple"
            THEN slices[s].score =
                    Quotient(Count(slices[s].residues, hydrophobic),
                             Len(slices[s].residues))
            ELSE SumAsa(slices[s].residues, Codes(slices[s].residues)) # 0 =>
                    slices[s].score =
                        Quotient(SumAsa(slices[s].residues, hydrophobic),
                                 SumAsa(slices[s].residues,
                                        Codes(slices[s].residues)))

Unrecognized == Methods \ {"ASA", "simple"}

\* C4: for a Slice whose scoring method is neither 'ASA' nor 'simple', the
\* construction, compute_score and thicken are rejected with the
\* invalid-argument failure and leave score, thickness and residues (the
\* whole Slice) as before the call.
C4_RejectedWhole ==
    [][\A s \in SliceIds, method \in Unrecognized :
          (\/ /\ lastOp' = "Slice"
              /\ \E center \in Centers, normal \in Normals :
                    Construct(s, center, normal, method)
           \/ /\ lastOp' = "compute_score"
              /\ slices[s].score_method = method /\ ComputeScore(s, method)
           \/ /\ lastOp' = "thicken"
              /\ slices[s].score_method = method /\ Rebuilt(s))
          => raised' = "ValueError" /\ slices'[s] = slices[s]]_vars

\* a Slice with residues, all of accessibility 0
ZeroTotal(sl) ==
    /\ sl.residues # <<>>
    /\ SumAsa(sl.residues, Codes(sl.residues)) = 0

\* the Slice that a construction is about to score
Built(center, normal, method) ==
    LET sl == [alive |-> TRUE, center |-> center, normal |-> normal,
               score_method |-> method,
               thickness |-> <<DefaultThickness, DefaultThickness>>,
               residues |-> <<>>, score |-> Zero]
    IN  [sl EXCEPT !.residues = find_residues(sl)]

\* C5: 'ASA' applied by a construction, compute_score or thicken to a
\* slice with residues whose total accessibility is zero ends with a
\* failure that is not the invalid-argument one and sets no score.
C5_ZeroTotalRaises ==
    [][\A s \in SliceIds :
          (\/ /\ lastOp' = "Slice"
              /\ \E center \in Centers, normal \in Normals :
                    /\ Construct(s, center, normal, "ASA")
                    /\ ZeroTotal(Built(center, normal, "ASA"))
           \/ /\ lastOp' = "compute_score"
              /\ ComputeScore(s, "ASA") /\ ZeroTotal(slices[s])
           \/ /\ lastOp' = "thicken"
              /\ slices[s].score_method = "ASA"
              /\ \E increment \in Increments, normal_direction \in BOOLEAN :
                    Thicken(s, increment, normal_direction)
              /\ ZeroTotal(slices[s])')
          => /\ raised' = "ZeroDivisionError"
             /\ raised' # "ValueError"
             /\ slices'[s].score = slices[s].score]_vars

\* a thicken under 'ASA' has raised on a slice of total 0 whose score, not
\* 0, is the one of before
C5_Witness ==
    /\ lastOp = "thicken" /\ raised = "ZeroDivisionError"
    /\ slices[1].score_method = "ASA"
    /\ ZeroTotal(slices[1])
    /\ slices[1].score # Zero

\* C6: sample_surface(nb) with nb <= 0 fails with the invalid-argument
\* error and leaves surf_pts as it was.
C6_NonPositiveRejected ==
    [][\A nb \in Counts :
          (nb <= 0 /\ SampleSurface(nb))
          => raised' = "ValueError" /\ surf_pts' = surf_pts]_vars

\* a rejected call on a Sphere that holds points
C6_Witness ==
    /\ lastOp = "sample_surface" /\ raised = "ValueError"
    /\ surf_pts # <<>>

\* C7: a call sample_surface(nb) with nb > 0 that returns, a repeated call
\* on the same Sphere included, returns the number of points that this call
\* generated and kept.
C7_ReturnsOwnCount ==
    [][\A nb \in Counts :
          (nb > 0 /\ SampleSurface(nb) /\ raised' = "")
          => ret' = Len(surf_pts') - Len(surf_pts)]_vars

\* C8: thicken(increment, normal_direction) adds increment to thickness[1]
\* when normal_direction is true and to thickness[0] otherwise, and leaves
\* the other thickness, the center, the normal, the scoring method and the
\* protein's exposed residues as they were.
C8_ThickenFrame ==
    [][\A increment \in Increments, normal_direction \in BOOLEAN :
          (lastOp' = "thicken" /\ Thicken(1, increment, normal_direction)) =>
            /\ slices'[1].thickness[2] = slices[1].thickness[2]
                    + (IF normal_direction THEN increment ELSE 0)
            /\ slices'[1].thickness[1] = slices[1].thickness[1]
                    + (IF normal_direction THEN 0 ELSE increment)
            /\ slices'[1].center = slices[1].center
            /\ slices'[1].normal = slices[1].normal
            /\ slices'[1].score_method = slices[1].score_method
            /\ residues_exposed' = residues_exposed]_vars

\* a slice shrunk at the front by a call that raised
C8_Witness ==
    /\ lastOp = "thicken"
    /\ slices[1].thickness = <<DefaultThickness, DefaultThickness - 1>>
    /\ raised = "ZeroDivisionError"

\* `new` is `old` with shift subtracted from every coordinate
Shifted(old, new, shift) ==
    /\ Len(new) = Len(old)
    /\ \A i \in DOMAIN old :
          /\ new[i].num = old[i].num
          /\ new[i].aa = old[i].aa
          /\ new[i].asa = old[i].asa
          /\ \A k \in 1..3 : new[i].coord[k] = old[i].coord[k] - shift[k]

\* C9: move(shift) subtracts shift from the coordinate of every exposed and
\* every buried residue and leaves the length and order of both lists and
\* the id, code and accessibility of every residue as they were.
C9_MoveFrame ==
    [][\A shift \in Shifts :
          Move(shift) =>
            /\ Shifted(residues_exposed, residues_exposed', shift)
            /\ Shifted(residues_burrowed, residues_burrowed', shift)]_vars

\* a move of a protein with exposed and buried residues
C9_Witness ==
    /\ lastOp = "move" /\ moves > 0
    /\ residues_exposed # <<>> /\ residues_burrowed # <<>>

\* p < q for two quotients in lowest terms
Smaller(p, q) == p[1] * q[2] < q[1] * p[2]

\* C10: the four comparisons of two Slices are those of their scores; with
\* equal scores neither < nor > holds, and exactly one of <, >, tie holds.
C10_OrderByScore ==
    lastOp = "compare" =>
        LET A == slices[cmp.a].score
            B == slices[cmp.b].score
        IN  /\ cmp.lt = Smaller(A, B)
            /\ cmp.gt = Smaller(B, A)
            /\ cmp.le = (Smaller(A, B) \/ A = B)
            /\ cmp.ge = (Smaller(B, A) \/ A = B)
            /\ A = B => ~cmp.lt /\ ~cmp.gt
            /\ Cardinality({k \in 1..3 : \/ k = 1 /\ cmp.lt
                                         \/ k = 2 /\ cmp.gt
                                         \/ k = 3 /\ A = B}) = 1

\* two Slices of different residues and one score, not 0, compared
C10_Witness ==
    /\ lastOp = "compare" /\ cmp.a # cmp.b
    /\ slices[cmp.a].residues # slices[cmp.b].residues
    /\ slices[cmp.a].score = slices[cmp.b].score
    /\ slices[cmp.a].score # Zero
    /\ cmp.le /\ cmp.ge /\ ~cmp.lt /\ ~cmp.gt

\* two Slices built with the same arguments and thickened to one thickness
SamePath(a, b) ==
    /\ slices[a].alive /\ slices[b].alive
    /\ slices[a].center = slices[b].center
    /\ slices[a].normal = slices[b].normal
    /\ slices[a].score_method = slices[b].score_method
    /\ slices[a].thickness = slices[b].thickness

\* C11, as stated: two Slices built identically over the unmoved protein
\* and thickened by any two sequences of calls that end with the same
\* thickness pair have the same residues and the same score, the sequences
\* with a thicken call that raised included.
C11_PathIndependent ==
    \A a \in SliceIds, b \in SliceIds :
        SamePath(a, b) => /\ slices[a].residues = slices[b].residues
                          /\ slices[a].score = slices[b].score

\* C11, amended: the two Slices have the same residues; they have the same
\* score when the slice is empty or the scoring method has a value on its
\* residues, that is unless 'ASA' divided by zero in the last thicken call
\* of each sequence, which leaves each Slice the score of its previous call.
C11_PathIndependentIfAny ==
    \A a \in SliceIds, b \in SliceIds :
        SamePath(a, b) =>
            /\ slices[a].residues = slices[b].residues
            /\ (slices[a].residues = <<>> \/ HasValue(slices[a])) =>
                   slices[a].score = slices[b].score

\* two Slices built alike, each thickened on both sides to one thickness,
\* the last call a thicken that returned: the slice is not empty, the
\* method has a value on it and both scores are that value, not 0
C11_Witness ==
    /\ SamePath(1, 2)
    /\ slices[1].thickness[1] # DefaultThickness
    /\ slices[1].thickness[2] # DefaultThickness
    /\ slices[1].residues # <<>> /\ HasValue(slices[1])
    /\ slices[1].score # Zero
    /\ slices[1].score = Value(slices[1])
    /\ slices[2].score = Value(slices[2])
    /\ lastOp = "thicken" /\ raised = ""

====
